---- MODULE Spec2Model ----
(***************************************************************************)
(* Forward (strike-resetting) option engines of QuantLib                   *)
(* (ql/PricingEngines/forwardengines.hpp) and the constructor of the Monte *)
(* Carlo European pricer (ql/Pricers/mceuropean.cpp).                      *)
(*                                                                         *)
(* Reals are modelled as exact rationals [n, d] in lowest terms; the       *)
(* engines' arithmetic is modelled without rounding.                       *)
(***************************************************************************)
EXTENDS Integers, Sequences, FiniteSets, TLC

VARIABLES engine, original, call, dirty, alive, va, mc

vars == <<engine, original, call, dirty, alive, va, mc>>

(***************************************************************************)
(* Rational arithmetic                                                     *)
(***************************************************************************)
Abs(x) == IF x < 0 THEN -x ELSE x

RECURSIVE GCD(_, _)
GCD(a, b) == IF b = 0 THEN a ELSE GCD(b, a % b)

\* the rational n/d in lowest terms with d >= 0; d = 0 stands for a value
\* beyond every finite one
Rat(n, d) ==
    LET g == GCD(Abs(n), Abs(d))
        s == IF d < 0 THEN -1 ELSE 1
    IN  IF g = 0 THEN [n |-> 0, d |-> 0]
        ELSE [n |-> s * (n \div g), d |-> s * (d \div g)]

Zero == Rat(0, 1)
One == Rat(1, 1)

RAdd(a, b) == Rat(a.n * b.d + b.n * a.d, a.d * b.d)
RNeg(a) == [n |-> -a.n, d |-> a.d]
RMul(a, b) == Rat(a.n * b.n, a.d * b.d)
RDiv(a, b) == Rat(a.n * b.d, a.d * b.n)
RLt(a, b) == a.n * b.d < b.n * a.d
RLe(a, b) == a.n * b.d <= b.n * a.d

\* Null<double>(): the largest representable value, used as "not set"
NullReal == [n |-> 1, d |-> 0]
\* Null<Date>(): the default-constructed date, serial number zero
NullDate == 0

(***************************************************************************)
(* Market-data collaborators: term structures and day counter              *)
(***************************************************************************)
NullHandle == [kind |-> "null", referenceDate |-> 0, rate |-> Zero, base |-> 0]

\* flat, simply-compounded curves quoted on a two-dates-per-year grid
RiskFreeCurve ==
    [kind |-> "flat", referenceDate |-> 10, rate |-> Rat(1, 10), base |-> 10]
DividendCurve ==
    [kind |-> "flat", referenceDate |-> 10, rate |-> Rat(1, 20), base |-> 10]
VolSurface ==
    [kind |-> "flat", referenceDate |-> 10, rate |-> Rat(1, 5), base |-> 10]

\* dayCounter().yearFraction(d1, d2)
yearFraction(d1, d2) == Rat(d2 - d1, 2)

\* TermStructure::discount(date): no value before the reference date
discount(ts, d) ==
    IF ts.kind = "null" \/ d < ts.referenceDate
    THEN [ok |-> FALSE, v |-> NullReal]
    ELSE [ok |-> TRUE,
          v |-> RDiv(One, RAdd(One,
                     RMul(ts.rate, yearFraction(ts.referenceDate, d))))]

\* TermStructure::zeroYield(date)
zeroYield(ts, d) ==
    IF ts.kind = "null" \/ d < ts.referenceDate
    THEN [ok |-> FALSE, v |-> NullReal]
    ELSE [ok |-> TRUE, v |-> ts.rate]

\* ImpliedTermStructure(ts, newTodaysDate, newReferenceDate) and
\* ImpliedVolTermStructure(volTS, newReferenceDate): a view of ts re-anchored
\* at the given date
Implied(ts, d) ==
    [kind |-> "implied", referenceDate |-> d, rate |-> ts.rate,
     base |-> ts.referenceDate]

(***************************************************************************)
(* Arguments and Results                                                   *)
(***************************************************************************)
\* a default-constructed ArgumentsType (the plain option arguments)
PlainArguments ==
    [type |-> "none", underlying |-> NullReal, strike |-> NullReal,
     dividendTS |-> NullHandle, riskFreeTS |-> NullHandle,
     volTS |-> NullHandle, exerciseType |-> "none", stoppingTimes |-> <<>>,
     maturity |-> NullReal]

\* ForwardOptionArguments(): the base arguments plus moneyness and resetDate,
\* both null
ForwardOptionArguments ==
    [type |-> "none", underlying |-> NullReal, strike |-> NullReal,
     dividendTS |-> NullHandle, riskFreeTS |-> NullHandle,
     volTS |-> NullHandle, exerciseType |-> "none", stoppingTimes |-> <<>>,
     maturity |-> NullReal, moneyness |-> NullReal, resetDate |-> NullDate]

\* Results after reset(): every field unset
UnsetResults ==
    [value |-> NullReal, delta |-> NullReal, gamma |-> NullReal,
     theta |-> NullReal, vega |-> NullReal, rho |-> NullReal,
     dividendRho |-> NullReal, strikeSensitivity |-> NullReal]

\* ArgumentsType::validate(): "ok" or the message of the failed requirement
ArgumentsType_validate(a) ==
    IF a.type = "none" THEN "no option type given"
    ELSE IF a.underlying = NullReal THEN "null underlying given"
    ELSE IF ~RLt(Zero, a.underlying) THEN "negative or zero underlying given"
    ELSE IF a.strike = NullReal THEN "null strike given"
    ELSE IF RLt(a.strike, Zero) THEN "negative strike given"
    ELSE IF a.dividendTS.kind = "null" THEN "null dividend term structure"
    ELSE IF a.riskFreeTS.kind = "null" THEN "null risk free term structure"
    ELSE IF a.maturity = NullReal THEN "null maturity given"
    ELSE IF RLt(a.maturity, Zero) THEN "negative maturity given"
    ELSE IF a.volTS.kind = "null" THEN "null vol term structure"
    ELSE "ok"

\* validate() with the last requirement written maturity > resetTime
ForwardOptionArguments_validate_strict(a) ==
    LET base == ArgumentsType_validate(a)
        resetTime == yearFraction(a.riskFreeTS.referenceDate, a.resetDate)
    IN  IF base # "ok" THEN base
        ELSE IF a.moneyness = NullReal THEN "null moneyness given"
        ELSE IF ~RLt(Zero, a.moneyness) THEN "negative or zero moneyness given"
        ELSE IF a.resetDate = NullDate THEN "null reset date given"
        ELSE IF ~RLe(Zero, resetTime) THEN "negative reset time given"
        ELSE IF ~RLt(resetTime, a.maturity)
             THEN "reset time greater than maturity"
        ELSE "ok"

\* ForwardOptionArguments<ArgumentsType>::validate()
ForwardOptionArguments_validate(a) ==
    LET base == ArgumentsType_validate(a)
        resetTime == yearFraction(a.riskFreeTS.referenceDate, a.resetDate)
    IN  IF base # "ok" THEN base
        ELSE IF a.moneyness = NullReal THEN "null moneyness given"
        ELSE IF ~RLt(Zero, a.moneyness) THEN "negative or zero moneyness given"
        ELSE IF a.resetDate = NullDate THEN "null reset date given"
        ELSE IF ~RLe(Zero, resetTime) THEN "negative reset time given"
        ELSE IF ~RLe(resetTime, a.maturity)
             THEN "reset time greater than maturity"
        ELSE "ok"

(***************************************************************************)
(* The wrapped engine: a GenericEngine<ArgumentsType, ResultsType> whose   *)
(* calculate() is a controlled stub                                        *)
(***************************************************************************)
\* behaviour: "pure"      results are a function of its arguments
\*            "onResults" calculate() adds onto the Results it finds
\*            "onSamples" calculate() adds a sample to an accumulator of its
\*                        own, which reset() does not touch
\* trace, entryUnset: what the stub saw during the current decorator call
NewOriginal(null, behaviour, argumentsShape, resultsShape) ==
    [null |-> null, behaviour |-> behaviour,
     argumentsShape |-> argumentsShape, resultsShape |-> resultsShape,
     arguments_ |-> PlainArguments, results_ |-> UnsetResults,
     samples |-> 0, resets |-> 0, trace |-> <<>>, entryUnset |-> FALSE]

\* GenericEngine::reset(): clears the Results
GenericEngine_reset(o) ==
    [o EXCEPT !.results_ = UnsetResults, !.resets = @ + 1,
              !.trace = Append(@, "reset")]

\* the stub's price and sensitivities for its current arguments
StubResults(a, samples) ==
    [value |-> RAdd(RAdd(a.underlying, a.strike), Rat(samples, 1)),
     delta |-> IF a.type = "Call" THEN Rat(1, 2) ELSE Rat(-1, 2),
     gamma |-> Rat(1, 4),
     theta |-> Rat(-1, 10),
     vega |-> Rat(2, 1),
     rho |-> a.maturity,
     dividendRho |-> Rat(2, 5),
     strikeSensitivity |-> Rat(-3, 10)]

\* the wrapped engine's calculate(): fails on a zero strike
Original_calculate(o) ==
    LET seen == [o EXCEPT !.trace = Append(@, "calculate"),
                          !.entryUnset = (o.results_ = UnsetResults)]
        n == IF o.behaviour = "onSamples" THEN o.samples + 1 ELSE o.samples
        r == StubResults(o.arguments_, n)
        prior == IF o.results_.value = NullReal THEN Zero
                 ELSE o.results_.value
    IN  IF o.arguments_.strike = Zero
        THEN [ok |-> FALSE, original |-> seen]
        ELSE [ok |-> TRUE,
              original |->
                [seen EXCEPT !.samples = n,
                             !.results_ =
                                IF o.behaviour = "onResults"
                                THEN [r EXCEPT !.value = RAdd(prior, r.value)]
                                ELSE r]]

(***************************************************************************)
(* ForwardEngine                                                           *)
(***************************************************************************)
\* dynamic_cast of the wrapped engine's arguments() / results()
dynamic_cast(shape) == IF shape = "plain" THEN "resolved" ELSE "null"

NoEngine ==
    [kind |-> "none", arguments_ |-> ForwardOptionArguments,
     results_ |-> UnsetResults, originalArguments_ |-> "null",
     originalResults_ |-> "null"]

\* ForwardEngine::ForwardEngine and ForwardPerformanceEngine's constructor,
\* which only forwards to it
ForwardEngine_ForwardEngine(kind, o) ==
    IF o.null
    THEN [ok |-> FALSE, engine |-> NoEngine]
    ELSE [ok |-> TRUE,
          engine |-> [kind |-> kind, arguments_ |-> ForwardOptionArguments,
                      results_ |-> UnsetResults,
                      originalArguments_ |-> dynamic_cast(o.argumentsShape),
                      originalResults_ |-> dynamic_cast(o.resultsShape)]]

\* ForwardEngine::setOriginalArguments(): the wrapped engine after the
\* writes, and the outcome of the wrapped arguments' validate()
ForwardEngine_setOriginalArguments(a, o) ==
    LET w == [type |-> a.type,
              underlying |-> a.underlying,
              strike |-> RMul(a.moneyness, a.underlying),
              dividendTS |-> Implied(a.dividendTS, a.resetDate),
              riskFreeTS |-> Implied(a.riskFreeTS, a.resetDate),
              volTS |-> Implied(a.volTS, a.resetDate),
              exerciseType |-> a.exerciseType,
              stoppingTimes |-> a.stoppingTimes,
              maturity |-> a.maturity]
    IN  [original |-> [o EXCEPT !.arguments_ = w,
                                !.trace = @ \o <<"arguments", "validate">>],
         status |-> ArgumentsType_validate(w)]

\* getOriginalResults() with the strike derivative left out of delta
ForwardEngine_getOriginalResults_noStrikeTerm(a, w, r) ==
    LET resetTime == yearFraction(a.riskFreeTS.referenceDate, a.resetDate)
        discQ == discount(a.dividendTS, a.resetDate)
        zy == zeroYield(a.dividendTS, a.resetDate)
        value == RMul(discQ.v, w.value)
        r1 == [r EXCEPT !.value = value,
                        !.delta = RMul(discQ.v, w.delta),
                        !.gamma = Zero]
    IN  IF ~discQ.ok THEN [ok |-> FALSE, results_ |-> r]
        ELSE IF ~zy.ok THEN [ok |-> FALSE, results_ |-> r1]
        ELSE [ok |-> TRUE,
              results_ |->
                [r1 EXCEPT !.theta = RMul(zy.v, value),
                           !.vega = RMul(discQ.v, w.vega),
                           !.rho = RMul(discQ.v, w.rho),
                           !.dividendRho =
                               RAdd(RNeg(RMul(resetTime, value)),
                                    RMul(discQ.v, w.dividendRho))]]

\* ForwardEngine::getOriginalResults(): a, the decorator's arguments; w, the
\* wrapped Results; r, the decorator's Results before the call
ForwardEngine_getOriginalResults(a, w, r) ==
    LET resetTime == yearFraction(a.riskFreeTS.referenceDate, a.resetDate)
        discQ == discount(a.dividendTS, a.resetDate)
        zy == zeroYield(a.dividendTS, a.resetDate)
        value == RMul(discQ.v, w.value)
        r1 == [r EXCEPT !.value = value,
                        !.delta = RMul(discQ.v, RAdd(w.delta,
                                     RMul(a.moneyness, w.strikeSensitivity))),
                        !.gamma = Zero]
    IN  IF ~discQ.ok THEN [ok |-> FALSE, results_ |-> r]
        ELSE IF ~zy.ok THEN [ok |-> FALSE, results_ |-> r1]
        ELSE [ok |-> TRUE,
              results_ |->
                [r1 EXCEPT !.theta = RMul(zy.v, value),
                           !.vega = RMul(discQ.v, w.vega),
                           !.rho = RMul(discQ.v, w.rho),
                           !.dividendRho =
                               RAdd(RNeg(RMul(resetTime, value)),
                                    RMul(discQ.v, w.dividendRho))]]

\* calculate() without the reset of the wrapped engine
ForwardEngine_calculate_noReset(e, o) ==
    LET s == ForwardEngine_setOriginalArguments(e.arguments_, o)
        c == Original_calculate(s.original)
        g == ForwardEngine_getOriginalResults(e.arguments_,
                 c.original.results_, e.results_)
    IN  IF e.originalArguments_ = "null"
        THEN [engine |-> e, original |-> o, outcome |-> "undefined"]
        ELSE IF s.status # "ok"
        THEN [engine |-> e, original |-> s.original,
              outcome |-> "ValidationError"]
        ELSE IF ~c.ok
        THEN [engine |-> e, original |-> c.original,
              outcome |-> "EngineError"]
        ELSE IF e.originalResults_ = "null"
        THEN [engine |-> e, original |-> c.original, outcome |-> "undefined"]
        ELSE [engine |-> [e EXCEPT !.results_ = g.results_],
              original |-> c.original,
              outcome |-> IF g.ok THEN "ok" ELSE "CurveError"]

\* calculate() resetting its own Results instead of the wrapped engine
ForwardEngine_calculate_resetsSelf(e, o) ==
    LET s == ForwardEngine_setOriginalArguments(e.arguments_, o)
        c == Original_calculate(s.original)
        g == ForwardEngine_getOriginalResults(e.arguments_,
                 c.original.results_, e.results_)
    IN  IF e.originalArguments_ = "null"
        THEN [engine |-> [e EXCEPT !.results_ = UnsetResults], original |-> o, outcome |-> "undefined"]
        ELSE IF s.status # "ok"
        THEN [engine |-> [e EXCEPT !.results_ = UnsetResults], original |-> s.original,
              outcome |-> "ValidationError"]
        ELSE IF ~c.ok
        THEN [engine |-> [e EXCEPT !.results_ = UnsetResults], original |-> c.original,
              outcome |-> "EngineError"]
        ELSE IF e.originalResults_ = "null"
        THEN [engine |-> [e EXCEPT !.results_ = UnsetResults], original |-> c.original, outcome |-> "undefined"]
        ELSE [engine |-> [e EXCEPT !.results_ = g.results_],
              original |-> c.original,
              outcome |-> IF g.ok THEN "ok" ELSE "CurveError"]

\* calculate() resetting the wrapped engine after setOriginalArguments()
ForwardEngine_calculate_lateReset(e, o) ==
    LET s == ForwardEngine_setOriginalArguments(e.arguments_, o)
        c == Original_calculate(GenericEngine_reset(s.original))
        g == ForwardEngine_getOriginalResults(e.arguments_,
                 c.original.results_, e.results_)
    IN  IF e.originalArguments_ = "null"
        THEN [engine |-> e, original |-> GenericEngine_reset(o), outcome |-> "undefined"]
        ELSE IF s.status # "ok"
        THEN [engine |-> e, original |-> s.original,
              outcome |-> "ValidationError"]
        ELSE IF ~c.ok
        THEN [engine |-> e, original |-> c.original,
              outcome |-> "EngineError"]
        ELSE IF e.originalResults_ = "null"
        THEN [engine |-> e, original |-> c.original, outcome |-> "undefined"]
        ELSE [engine |-> [e EXCEPT !.results_ = g.results_],
              original |-> c.original,
              outcome |-> IF g.ok THEN "ok" ELSE "CurveError"]

\* ForwardEngine::calculate(); "undefined" when a statement dereferences an
\* unresolved (null) view of the wrapped engine
ForwardEngine_calculate(e, o) ==
    LET s == ForwardEngine_setOriginalArguments(e.arguments_,
                                                GenericEngine_reset(o))
        c == Original_calculate(s.original)
        g == ForwardEngine_getOriginalResults(e.arguments_,
                                              c.original.results_, e.results_)
    IN  IF e.originalArguments_ = "null"
        THEN [engine |-> e, original |-> GenericEngine_reset(o), outcome |-> "undefined"]
        ELSE IF s.status # "ok"
        THEN [engine |-> e, original |-> s.original,
              outcome |-> "ValidationError"]
        ELSE IF ~c.ok
        THEN [engine |-> e, original |-> c.original,
              outcome |-> "EngineError"]
        ELSE IF e.originalResults_ = "null"
        THEN [engine |-> e, original |-> c.original, outcome |-> "undefined"]
        ELSE [engine |-> [e EXCEPT !.results_ = g.results_],
              original |-> c.original,
              outcome |-> IF g.ok THEN "ok" ELSE "CurveError"]

(***************************************************************************)
(* ForwardPerformanceEngine                                                *)
(***************************************************************************)
\* getOriginalResults() without the division by the underlying
ForwardPerformanceEngine_getOriginalResults_noNormalization(a, w, r) ==
    LET resetTime == yearFraction(a.riskFreeTS.referenceDate, a.resetDate)
        disc == discount(a.riskFreeTS, a.resetDate)
        zy == zeroYield(a.riskFreeTS, a.resetDate)
        discR == disc.v
        value == RMul(discR, w.value)
        r1 == [r EXCEPT !.value = value, !.delta = Zero, !.gamma = Zero]
    IN  IF ~disc.ok THEN [ok |-> FALSE, results_ |-> r]
        ELSE IF ~zy.ok THEN [ok |-> FALSE, results_ |-> r1]
        ELSE [ok |-> TRUE,
              results_ |->
                [r1 EXCEPT !.theta = RMul(zy.v, value),
                           !.vega = RMul(discR, w.vega),
                           !.rho = RAdd(RNeg(RMul(resetTime, value)),
                                        RMul(discR, w.rho)),
                           !.dividendRho = RMul(discR, w.dividendRho)]]

\* ForwardPerformanceEngine::getOriginalResults()
ForwardPerformanceEngine_getOriginalResults(a, w, r) ==
    LET resetTime == yearFraction(a.riskFreeTS.referenceDate, a.resetDate)
        disc == discount(a.riskFreeTS, a.resetDate)
        zy == zeroYield(a.riskFreeTS, a.resetDate)
        discR == RDiv(disc.v, a.underlying)
        value == RMul(discR, w.value)
        r1 == [r EXCEPT !.value = value, !.delta = Zero, !.gamma = Zero]
    IN  IF ~disc.ok THEN [ok |-> FALSE, results_ |-> r]
        ELSE IF ~zy.ok THEN [ok |-> FALSE, results_ |-> r1]
        ELSE [ok |-> TRUE,
              results_ |->
                [r1 EXCEPT !.theta = RMul(zy.v, value),
                           !.vega = RMul(discR, w.vega),
                           !.rho = RAdd(RNeg(RMul(resetTime, value)),
                                        RMul(discR, w.rho)),
                           !.dividendRho = RMul(discR, w.dividendRho)]]

\* calculate() with a reset of the wrapped engine first
ForwardPerformanceEngine_calculate_withReset(e, o) ==
    LET s == ForwardEngine_setOriginalArguments(e.arguments_,
                                                GenericEngine_reset(o))
        c == Original_calculate(s.original)
        g == ForwardPerformanceEngine_getOriginalResults(e.arguments_,
                 c.original.results_, e.results_)
    IN  IF e.originalArguments_ = "null"
        THEN [engine |-> e, original |-> GenericEngine_reset(o), outcome |-> "undefined"]
        ELSE IF s.status # "ok"
        THEN [engine |-> e, original |-> s.original,
              outcome |-> "ValidationError"]
        ELSE IF ~c.ok
        THEN [engine |-> e, original |-> c.original,
              outcome |-> "EngineError"]
        ELSE IF e.originalResults_ = "null"
        THEN [engine |-> e, original |-> c.original, outcome |-> "undefined"]
        ELSE [engine |-> [e EXCEPT !.results_ = g.results_],
              original |-> c.original,
              outcome |-> IF g.ok THEN "ok" ELSE "CurveError"]

\* ForwardPerformanceEngine::calculate()
ForwardPerformanceEngine_calculate(e, o) ==
    LET s == ForwardEngine_setOriginalArguments(e.arguments_, o)
        c == Original_calculate(s.original)
        g == ForwardPerformanceEngine_getOriginalResults(e.arguments_,
                                              c.original.results_, e.results_)
    IN  IF e.originalArguments_ = "null"
        THEN [engine |-> e, original |-> o, outcome |-> "undefined"]
        ELSE IF s.status # "ok"
        THEN [engine |-> e, original |-> s.original,
              outcome |-> "ValidationError"]
        ELSE IF ~c.ok
        THEN [engine |-> e, original |-> c.original,
              outcome |-> "EngineError"]
        ELSE IF e.originalResults_ = "null"
        THEN [engine |-> e, original |-> c.original, outcome |-> "undefined"]
        ELSE [engine |-> [e EXCEPT !.results_ = g.results_],
              original |-> c.original,
              outcome |-> IF g.ok THEN "ok" ELSE "CurveError"]

(***************************************************************************)
(* The decorators as a state machine                                       *)
(***************************************************************************)
\* decorator calculate() calls in one behaviour
MaxCalls == 3

Behaviours == {"pure", "onResults", "onSamples"}

\* the engines a client may hand to a decorator's constructor
Originals ==
    {NewOriginal(FALSE, b, "plain", "plain") : b \in Behaviours}
    \cup {NewOriginal(TRUE, "pure", "plain", "plain"),
          NewOriginal(FALSE, "pure", "other", "plain"),
          NewOriginal(FALSE, "pure", "plain", "other")}

\* the arguments a client sets on a decorator; strike is the nominal strike
\* the instrument hands over with the inherited fields
ArgumentsDomain ==
    {[type |-> "Call", underlying |-> Rat(u, 1), strike |-> Rat(3, 1),
      dividendTS |-> DividendCurve, riskFreeTS |-> RiskFreeCurve,
      volTS |-> VolSurface, exerciseType |-> "European",
      stoppingTimes |-> <<>>, maturity |-> Rat(1, 1),
      moneyness |-> Rat(m, 1), resetDate |-> d] :
        u \in {0, 2}, m \in {0, 1, 2}, d \in {0, 10, 11, 12, 13}}

\* what a dereference of a null view may leave in the Results
Garbage == [UnsetResults EXCEPT !.value = Rat(-1, 1)]

NoCall == [n |-> 0, ctor |-> "none", outcome |-> "none", repeat |-> FALSE]
NoValidation == [arguments |-> ForwardOptionArguments, outcome |-> "idle"]
NoMc == [state |-> "idle"]

Init ==
    /\ engine = NoEngine
    /\ original \in Originals
    /\ call = NoCall
    /\ dirty = FALSE
    /\ alive = TRUE
    /\ va = NoValidation
    /\ mc = NoMc

\* new ForwardEngine(original) / new ForwardPerformanceEngine(original)
Construct(kind) ==
    /\ call.ctor = "none"
    /\ LET r == ForwardEngine_ForwardEngine(kind, original)
       IN  /\ engine' = r.engine
           /\ call' = [call EXCEPT !.ctor = IF r.ok THEN "ok" ELSE "error"]
    /\ UNCHANGED <<original, dirty, alive, va, mc>>

\* the client fills in the decorator's arguments
SetArguments(a) ==
    /\ engine.kind # "none"
    /\ alive
    /\ a # engine.arguments_
    /\ engine' = [engine EXCEPT !.arguments_ = a]
    /\ dirty' = TRUE
    /\ UNCHANGED <<original, call, alive, va, mc>>

\* engine.calculate(), dispatched on the decorator's dynamic type
Calculate ==
    /\ engine.kind # "none"
    /\ alive
    /\ call.n < MaxCalls
    /\ LET o == [original EXCEPT !.trace = <<>>, !.entryUnset = FALSE]
           r == IF engine.kind = "ForwardEngine"
                THEN ForwardEngine_calculate(engine, o)
                ELSE ForwardPerformanceEngine_calculate(engine, o)
       IN  /\ original' = r.original
           /\ call' = [call EXCEPT !.n = @ + 1, !.outcome = r.outcome,
                                   !.repeat = (call.outcome = "ok" /\ ~dirty)]
           /\ IF r.outcome = "undefined"
              THEN /\ engine' \in {r.engine,
                                   [r.engine EXCEPT !.results_ = Garbage]}
                   /\ alive' \in BOOLEAN
              ELSE /\ engine' = r.engine
                   /\ alive' = alive
    /\ dirty' = FALSE
    /\ UNCHANGED <<va, mc>>

Next ==
    \/ \E kind \in {"ForwardEngine", "ForwardPerformanceEngine"} :
          Construct(kind)
    \/ \E a \in ArgumentsDomain : SetArguments(a)
    \/ Calculate

Spec == Init /\ [][Next]_vars

(***************************************************************************)
(* ForwardOptionArguments::validate() on its own                           *)
(***************************************************************************)
ValidateDomain ==
    {[type |-> t, underlying |-> Rat(u, 1), strike |-> Rat(3, 1),
      dividendTS |-> DividendCurve, riskFreeTS |-> RiskFreeCurve,
      volTS |-> VolSurface, exerciseType |-> "European",
      stoppingTimes |-> <<>>, maturity |-> Rat(mat, 2),
      moneyness |-> m, resetDate |-> d] :
        t \in {"none", "Call"}, u \in {0, 1}, mat \in {1, 2},
        m \in {NullReal, Rat(-1, 1), Zero, Rat(1, 2), Rat(2, 1)},
        d \in {0, 9, 10, 11, 12, 13}}

InitValidate ==
    /\ engine = NoEngine
    /\ original = NewOriginal(TRUE, "pure", "plain", "plain")
    /\ call = NoCall
    /\ dirty = FALSE
    /\ alive = TRUE
    /\ va \in [arguments : ValidateDomain, outcome : {"none"}]
    /\ mc = NoMc

\* the client changes the arguments
ChangeArguments(a) ==
    /\ a # va.arguments
    /\ va' = [arguments |-> a, outcome |-> "none"]
    /\ UNCHANGED <<engine, original, call, dirty, alive, mc>>

\* arguments.validate()
Validate ==
    /\ va.outcome = "none"
    /\ va' = [va EXCEPT !.outcome = ForwardOptionArguments_validate(va.arguments)]
    /\ UNCHANGED <<engine, original, call, dirty, alive, mc>>

NextValidate ==
    \/ \E a \in ValidateDomain : ChangeArguments(a)
    \/ Validate

SpecValidate == InitValidate /\ [][NextValidate]_vars

(***************************************************************************)
(* McEuropean                                                              *)
(***************************************************************************)
\* samples added to one Monte Carlo model
MaxSamples == 2

\* GaussianPathGenerator(drift, variance, length, timeSteps, seed): refuses a
\* length or a variance that is not positive
GaussianPathGenerator(drift, variance, length, timeSteps, seed) ==
    [ok |-> RLt(Zero, length) /\ RLt(Zero, variance),
     drift |-> drift, variance |-> variance, length |-> length,
     timeSteps |-> timeSteps, seed |-> seed]

\* EuropeanPathPricer(type, underlying, strike, discount, antitheticVariance)
EuropeanPathPricer(type, underlying, strike, disc, antitheticVariance) ==
    [type |-> type, underlying |-> underlying, strike |-> strike,
     discount |-> disc, antitheticVariance |-> antitheticVariance]

\* QL_EXP(x), kept symbolic
QL_EXP(x) == [exp |-> x]

\* McEuropean::McEuropean: "built" with its mcModel_, or "rejected" when a
\* collaborator's constructor refuses its arguments
McEuropean_McEuropean(in) ==
    LET mu == RAdd(RAdd(in.riskFreeRate, RNeg(in.dividendYield)),
                   RNeg(RMul(Rat(1, 2),
                             RMul(in.volatility, in.volatility))))
        pathGenerator ==
            GaussianPathGenerator(mu, RMul(in.volatility, in.volatility),
                                  in.residualTime, 1, in.seed)
        euroPathPricer ==
            EuropeanPathPricer(in.type, in.underlying, in.strike,
                QL_EXP(RNeg(RMul(in.riskFreeRate, in.residualTime))),
                in.antitheticVariance)
    IN  [state |-> IF pathGenerator.ok THEN "built" ELSE "rejected",
         in |-> in,
         pathGenerator |-> pathGenerator,
         pathPricer |-> euroPathPricer,
         samples |-> 0]

McDomain ==
    [type : {"Call", "Put"}, underlying : {Rat(100, 1)},
     strike : {Rat(100, 1)}, dividendYield : {Zero},
     riskFreeRate : {Rat(1, 20)},
     residualTime : {Rat(-1, 1), Zero, One},
     volatility : {Rat(-1, 5), Zero, Rat(1, 5), Rat(2, 5)},
     antitheticVariance : BOOLEAN, seed : {1, 2}]

InitMc ==
    /\ engine = NoEngine
    /\ original = NewOriginal(TRUE, "pure", "plain", "plain")
    /\ call = NoCall
    /\ dirty = FALSE
    /\ alive = TRUE
    /\ va = NoValidation
    /\ mc = NoMc

\* new McEuropean(...)
McConstruct(in) ==
    /\ mc.state = "idle"
    /\ mc' = McEuropean_McEuropean(in)
    /\ UNCHANGED <<engine, original, call, dirty, alive, va>>

\* the pricer draws one more sample from its mcModel_
McAddSample ==
    /\ mc.state = "built"
    /\ mc.samples < MaxSamples
    /\ mc' = [mc EXCEPT !.samples = @ + 1]
    /\ UNCHANGED <<engine, original, call, dirty, alive, va>>

NextMc ==
    \/ \E in \in McDomain : McConstruct(in)
    \/ McAddSample

SpecMc == InitMc /\ [][NextMc]_vars

(***************************************************************************)
(* Properties                                                              *)
(***************************************************************************)
IsForward == engine.kind = "ForwardEngine"
IsPerformance == engine.kind = "ForwardPerformanceEngine"
Failed(o) == o \in {"ValidationError", "EngineError"}
Settable(b) == b = "pure" \/ (IsForward /\ b = "onResults")

\* what setOriginalArguments() is to leave in the wrapped arguments
Transformed(a) ==
    [type |-> a.type, underlying |-> a.underlying,
     strike |-> RMul(a.moneyness, a.underlying),
     dividendTS |-> Implied(a.dividendTS, a.resetDate),
     riskFreeTS |-> Implied(a.riskFreeTS, a.resetDate),
     volTS |-> Implied(a.volTS, a.resetDate),
     exerciseType |-> a.exerciseType, stoppingTimes |-> a.stoppingTimes,
     maturity |-> a.maturity]

\* C1: after a successful ForwardEngine calculate() the Results are
\* value = discQ * wrapped.value, delta = discQ * (wrapped.delta + moneyness *
\* wrapped.strikeSensitivity), gamma = 0, theta = dividend zero yield at the
\* reset date * value, vega = discQ * wrapped.vega, rho = discQ * wrapped.rho,
\* dividendRho = -resetTime * value + discQ * wrapped.dividendRho, with discQ
\* the discount of the decorator's own dividend curve at the reset date.
C1_ForwardEngineResults ==
    (IsForward /\ call.outcome = "ok" /\ ~dirty) =>
        LET a == engine.arguments_
            w == original.results_
            r == engine.results_
            discQ == discount(a.dividendTS, a.resetDate).v
            resetTime == yearFraction(a.riskFreeTS.referenceDate, a.resetDate)
        IN  /\ r.value = RMul(discQ, w.value)
            /\ r.delta = RAdd(RMul(discQ, w.delta),
                              RMul(RMul(discQ, a.moneyness),
                                   w.strikeSensitivity))
            /\ r.gamma = Zero
            /\ r.theta = RMul(zeroYield(a.dividendTS, a.resetDate).v, r.value)
            /\ r.vega = RMul(discQ, w.vega)
            /\ r.rho = RMul(discQ, w.rho)
            /\ RAdd(r.dividendRho, RMul(resetTime, r.value))
                  = RMul(discQ, w.dividendRho)

\* a ForwardEngine has priced with moneyness 2 and a reset half a year ahead
C1_Witness ==
    /\ IsForward /\ call.outcome = "ok" /\ ~dirty
    /\ engine.arguments_.moneyness = Rat(2, 1)
    /\ engine.arguments_.resetDate = 11
    /\ engine.results_.value # original.results_.value
    /\ engine.results_.gamma = Zero

\* C2: validate() runs the base validate() first, then fails on a null or
\* non-positive moneyness, a null reset date, a negative reset time and a
\* reset time beyond maturity, and accepts everything else (a reset time of
\* zero or equal to maturity included).
C2_ValidateOutcome ==
    (va.outcome \notin {"none", "idle"}) =>
        LET a == va.arguments
            base == ArgumentsType_validate(a)
            ref == a.riskFreeTS.referenceDate
            forwardOk ==
                /\ a.moneyness # NullReal
                /\ a.moneyness.n > 0
                /\ a.resetDate # NullDate
                /\ a.resetDate >= ref
                /\ (a.resetDate - ref) * a.maturity.d <= 2 * a.maturity.n
        IN  /\ (base # "ok") => (va.outcome = base)
            /\ (base = "ok") => ((va.outcome = "ok") <=> forwardOk)

\* valid arguments whose reset time equals maturity were accepted
C2_Witness ==
    /\ va.outcome = "ok"
    /\ yearFraction(va.arguments.riskFreeTS.referenceDate,
                    va.arguments.resetDate) = va.arguments.maturity

\* C3 as stated: two consecutive successful calculate() calls with no change
\* of the Arguments in between leave the decorator's Results identical,
\* whatever the wrapped engine.
C3_Idempotent ==
    [][(call'.n # call.n /\ call'.outcome = "ok" /\ call'.repeat)
         => engine'.results_ = engine.results_]_vars

\* C3 amended: the same, for a wrapped engine whose Results depend only on
\* its Arguments, or, under ForwardEngine, on its Arguments and the Results it
\* finds at entry.
C3_IdempotentSettable ==
    [][(call'.n # call.n /\ call'.outcome = "ok" /\ call'.repeat
          /\ Settable(original.behaviour))
         => engine'.results_ = engine.results_]_vars

\* a ForwardEngine around an engine that adds onto its Results has priced
\* twice in a row with the same Arguments
C3_Witness ==
    /\ IsForward /\ original.behaviour = "onResults"
    /\ call.repeat /\ call.outcome = "ok" /\ ~dirty

\* C4: a calculate() that fails with a validation error or an error of the
\* wrapped engine leaves every field of the decorator's Results as it was.
C4_NoPartialResults ==
    [][(call'.n # call.n /\ Failed(call'.outcome))
         => engine'.results_ = engine.results_]_vars

\* a calculate() failed on a decorator that holds earlier Results
C4_Witness ==
    /\ Failed(call.outcome)
    /\ ~dirty
    /\ engine.results_ # UnsetResults

\* C5: calculate() of a ForwardEngine whose forward Arguments validate()
\* would reject raises a validation error before the wrapped engine's
\* calculate() and writes no Results.
C5_ForwardArgumentsChecked ==
    (/\ IsForward /\ ~dirty /\ call.outcome \notin {"none", "undefined"}
     /\ ArgumentsType_validate(engine.arguments_) = "ok"
     /\ ForwardOptionArguments_validate(engine.arguments_) # "ok")
    => (/\ call.outcome = "ValidationError"
        /\ original.trace = <<"reset", "arguments", "validate">>)

\* C6: a decorator's constructor fails on a null wrapped engine and on one
\* whose Arguments or Results cannot be downcast, so no decorator exists with
\* an unresolved view.
C6_ConstructionFailsFast ==
    /\ (engine.kind # "none") =>
           (/\ engine.originalArguments_ = "resolved"
            /\ engine.originalResults_ = "resolved")
    /\ (/\ call.ctor # "none"
        /\ (original.null \/ original.argumentsShape # "plain"
                          \/ original.resultsShape # "plain"))
       => call.ctor = "error"

\* C7: after a successful ForwardPerformanceEngine calculate(), with discR the
\* risk-free discount at the reset date divided by the underlying, the
\* Results are value = discR * wrapped.value, delta = 0, gamma = 0, theta =
\* risk-free zero yield at the reset date * value, vega = discR *
\* wrapped.vega, rho = -resetTime * value + discR * wrapped.rho, dividendRho =
\* discR * wrapped.dividendRho.
C7_PerformanceEngineResults ==
    (IsPerformance /\ call.outcome = "ok" /\ ~dirty) =>
        LET a == engine.arguments_
            w == original.results_
            r == engine.results_
            disc == discount(a.riskFreeTS, a.resetDate).v
            resetTime == yearFraction(a.riskFreeTS.referenceDate, a.resetDate)
        IN  /\ RMul(r.value, a.underlying) = RMul(disc, w.value)
            /\ r.delta = Zero
            /\ r.gamma = Zero
            /\ r.theta = RMul(zeroYield(a.riskFreeTS, a.resetDate).v, r.value)
            /\ RMul(r.vega, a.underlying) = RMul(disc, w.vega)
            /\ RMul(RAdd(r.rho, RMul(resetTime, r.value)), a.underlying)
                  = RMul(disc, w.rho)
            /\ RMul(r.dividendRho, a.underlying) = RMul(disc, w.dividendRho)

\* a ForwardPerformanceEngine has priced on an underlying of 2 with a reset
\* half a year ahead, the wrapped delta and gamma being non-zero
C7_Witness ==
    /\ IsPerformance /\ call.outcome = "ok" /\ ~dirty
    /\ engine.arguments_.underlying = Rat(2, 1)
    /\ engine.arguments_.resetDate = 11
    /\ original.results_.delta # Zero
    /\ original.results_.gamma # Zero
    /\ engine.results_.delta = Zero

\* C8: a McEuropean is never built from a residualTime or a volatility that
\* is zero or negative, and no sample is drawn for such inputs.
C8_McRejectsNonPositive ==
    (mc.state = "built") =>
        (/\ RLt(Zero, mc.in.residualTime)
         /\ RLt(Zero, mc.in.volatility))

\* C9: ForwardEngine calculate() resets the wrapped engine, then writes and
\* validates the wrapped Arguments, then runs the wrapped calculate(), then
\* writes its own Results: the wrapped calculate() never runs before the
\* reset and the validate() of the same call, and the Results are written
\* only after it has returned.
C9_CalculateOrder ==
    (IsForward /\ call.outcome \notin {"none", "undefined"}) =>
        /\ (call.outcome = "ValidationError") =>
               (/\ original.trace = <<"reset", "arguments", "validate">>
                /\ ArgumentsType_validate(original.arguments_) # "ok")
        /\ (call.outcome # "ValidationError") =>
               (/\ original.trace =
                      <<"reset", "arguments", "validate", "calculate">>
                /\ original.entryUnset
                /\ ArgumentsType_validate(original.arguments_) = "ok")
        /\ (~dirty) => (original.arguments_ = Transformed(engine.arguments_))
        /\ (Failed(call.outcome) /\ call.n = 1) =>
               (engine.results_ = UnsetResults)
        /\ (call.outcome = "ok") =>
               (/\ original.results_ # UnsetResults
                /\ engine.results_ # UnsetResults)

\* a ForwardEngine has priced a second time, its wrapped engine holding the
\* Results of the first call when the second began
C9_Witness ==
    /\ IsForward /\ call.outcome = "ok" /\ call.repeat
    /\ original.trace = <<"reset", "arguments", "validate", "calculate">>
    /\ original.arguments_.strike = Rat(4, 1)

\* C10: ForwardPerformanceEngine calculate() never resets the wrapped engine,
\* whose calculate() starts from the state the previous call left;
\* ForwardEngine calculate() resets it exactly once per call.
C10_ResetAsymmetry ==
    [][(call'.n # call.n) =>
         /\ IsPerformance =>
               (/\ original'.resets = 0
                /\ "reset" \notin {original'.trace[i] :
                                     i \in DOMAIN original'.trace}
                /\ ("calculate" \in {original'.trace[i] :
                                       i \in DOMAIN original'.trace})
                     => (original'.entryUnset
                           = (original.results_ = UnsetResults)))
         /\ IsForward =>
               (/\ original'.resets = original.resets + 1
                /\ original'.resets = call'.n)]_vars

\* a ForwardPerformanceEngine has priced twice, the wrapped calculate() of
\* the second call starting from the Results of the first
C10_Witness ==
    /\ IsPerformance /\ call.n >= 2 /\ call.outcome = "ok"
    /\ original.resets = 0
    /\ ~original.entryUnset

====
